---- MODULE Spec2Model ----
(***************************************************************************)
(* Treap-vs-BST-Comparison: the Node/Post model (src/src/Models/models.py),*)
(* the baseline BST (src/src/Binary Search Tree/bst.py) and the Treap with *)
(* split and union (src/src/Treap/treap.py), driven the way main.py,       *)
(* partitionMain.py and utils.run_mandated_test_case drive them.           *)
(*                                                                         *)
(* Node objects live in one object store `mem` (a sequence of cells, the   *)
(* index is the object's address, 0 is None).  Every recursive method of   *)
(* the source is an operator that takes the store and returns the store it *)
(* leaves behind together with the value the method returns.               *)
(***************************************************************************)
EXTENDS Integers, Sequences, FiniteSets, Bags, TLC

VARIABLES
    mem,        \* the Node objects
    bst,        \* the BST object
    treaps,     \* the Treap objects
    consumed,   \* Treaps handed to union() as donor and not yet deleted
    run,        \* what the driver runs: "BST", "Treap" or "n-Treaps"
    pc,         \* position in utils.run_mandated_test_case, 0 outside of it
    test,       \* the data of the test case that runs
    ret         \* what the queries of the test case returned

vars == <<mem, bst, treaps, consumed, run, pc, test, ret>>

----------------------------------------------------------------------------
(* Bounds of the exploration *)

MaxNodes == 3      \* Node objects alive in the store at one time
MaxScore == 2      \* likes stop when a score would pass it
MaxCount == 2      \* the instrumentation counters stop the run at this value
MaxStream == 4     \* posts of the stream of main.run_simulation

\* the Treap objects of the drivers
Master == 1        \* my_treap (main.py), master_treap (partitionMain.py)
Temp   == 2        \* temp_treap (partitionMain.py)
Third  == 3        \* one more partition, for three-way unions
TreapIds == {Master, Temp, Third}

Ids == {"a", "b"}
ChunkIds == {"a"}  \* split and union never read post_id
Timestamps == {1, 2}
Scores == {1, 2}

----------------------------------------------------------------------------
(* Models: Post and Node *)

Nil == 0

Post(post_id, timestamp, score) ==
    [post_id |-> post_id, timestamp |-> timestamp, score |-> score]

\* a Node that takes its priority from the ordering key instead of the score
Node_priority_from_timestamp(post) ==
    [post |-> post, left |-> Nil, right |-> Nil, priority |-> post.timestamp]

\* Node.__init__: the payload, no children, priority = post.score
Node(post) ==
    [post |-> post, left |-> Nil, right |-> Nil, priority |-> post.score]

\* address handed out to the next Node object
Alloc(h) == Len(h) + 1

Store(h, a, cell) == Append(h, cell)

\* the nodes of the subtree of n, parent first
RECURSIVE PreOrder(_, _)
PreOrder(h, n) ==
    IF n = Nil THEN <<>>
    ELSE <<n>> \o PreOrder(h, h[n].left) \o PreOrder(h, h[n].right)

Reach(h, n) == {PreOrder(h, n)[k] : k \in DOMAIN PreOrder(h, n)}

\* s followed by the elements of t that are not in it
RECURSIVE AppendNew(_, _)
AppendNew(s, t) ==
    IF t = <<>> THEN s
    ELSE AppendNew(IF \E k \in DOMAIN s : s[k] = Head(t) THEN s ELSE Append(s, Head(t)),
                   Tail(t))

RECURSIVE LiveOrder(_, _)
LiveOrder(h, roots) ==
    IF roots = <<>> THEN <<>>
    ELSE AppendNew(LiveOrder(h, SubSeq(roots, 1, Len(roots) - 1)),
                   PreOrder(h, roots[Len(roots)]))

\* Object addresses are never observed by the program, and a Node that no
\* tree reaches is released: the store keeps the live nodes only, in the
\* order the roots reach them.  Move(live, a) is the address of a afterwards.
Move(live, a) ==
    IF a = Nil THEN Nil ELSE CHOOSE k \in DOMAIN live : live[k] = a

Collect(h, live) ==
    [k \in DOMAIN live |->
        [h[live[k]] EXCEPT !.left = Move(live, @), !.right = Move(live, @)]]

----------------------------------------------------------------------------
(* Treap (src/src/Treap/treap.py).  A call context s carries the store and *)
(* the two counters of the Treap object the method runs on:                *)
(* s.h = store, s.rot = self.rotations_count, s.cmp = self.comparisons.    *)
(* Of a deletePost under way it also carries the call stack and a record   *)
(* of the steps taken: s.stack = the frames of _delete_recursive that wait *)
(* for a callee, each with its node and the child link it will assign, the *)
(* outermost first; s.steps = for each rotation done so far, the tree as   *)
(* the store and the waiting assignments make it, and the node on its way  *)
(* down.                                                                    *)

Ctx(h, t) == [h |-> h, rot |-> t.rotations_count, cmp |-> t.comparisons,
              stack |-> <<>>, steps |-> <<>>]

\* the tree a call would hand back if every waiting frame assigned its link
\* now: the innermost frame gets the subtree root `node`, each frame further
\* out the node of the frame inside it, and self.root the outermost node
RECURSIVE Unwind(_, _, _)
Unwind(h, stack, node) ==
    IF stack = <<>> THEN [h |-> h, root |-> node]
    ELSE LET top == stack[Len(stack)]
             h1  == IF top.side = "left" THEN [h EXCEPT ![top.node].left = node]
                                         ELSE [h EXCEPT ![top.node].right = node]
         IN  Unwind(h1, SubSeq(stack, 1, Len(stack) - 1), top.node)

\* a frame starts to wait for the callee that will give it its child link
Push(s, node, side) == [s EXCEPT !.stack = Append(@, [node |-> node, side |-> side])]
Pop(s) == [s EXCEPT !.stack = SubSeq(@, 1, Len(@) - 1)]

\* the step a rotation has just made: `node` is the new subtree root
Step(s, node, target) ==
    [s EXCEPT !.steps = Append(@, [tree |-> Unwind(s.h, s.stack, node), target |-> target])]

\* Treap.__init__
NewTreap == [root |-> Nil, rotations_count |-> 0, comparisons |-> 0]

\* a right rotation that counts itself and relinks nothing
Treap_right_rotate_no_relink(s, y) ==
    [s |-> [s EXCEPT !.rot = @ + 1], node |-> y]

\* y (parent) becomes the right child of x (its left child)
\* a right rotation that does not hand the subtree T2 over to y
Treap_right_rotate_drops_T2(s, y) ==
    LET x == s.h[y].left
    IN  [s |-> [s EXCEPT !.rot = @ + 1,
                         !.h = [s.h EXCEPT ![x].right = y, ![y].left = Nil]],
         node |-> x]

Treap_right_rotate(s, y) ==
    LET x  == s.h[y].left
        T2 == s.h[x].right
    IN  [s |-> [s EXCEPT !.rot = @ + 1,
                         !.h = [s.h EXCEPT ![x].right = y, ![y].left = T2]],
         node |-> x]

\* a left rotation that counts itself and relinks nothing
Treap_left_rotate_no_relink(s, x) ==
    [s |-> [s EXCEPT !.rot = @ + 1], node |-> x]

\* x (parent) becomes the left child of y (its right child)
Treap_left_rotate(s, x) ==
    LET y  == s.h[x].right
        T2 == s.h[y].left
    IN  [s |-> [s EXCEPT !.rot = @ + 1,
                         !.h = [s.h EXCEPT ![y].left = x, ![x].right = T2]],
         node |-> y]

\* an insert that leaves the new node where the search has put it
RECURSIVE Treap_insert_recursive_no_rotation(_, _, _)
Treap_insert_recursive_no_rotation(s, node, new_post) ==
    IF node = Nil
    THEN LET a == Alloc(s.h)
         IN  [s |-> [s EXCEPT !.h = Store(s.h, a, Node(new_post))], node |-> a]
    ELSE LET s1 == [s EXCEPT !.cmp = @ + 1]
         IN  IF new_post.timestamp < s1.h[node].post.timestamp
             THEN LET r == Treap_insert_recursive_no_rotation(s1, s1.h[node].left, new_post)
                  IN  [s |-> [r.s EXCEPT !.h[node].left = r.node], node |-> node]
             ELSE LET r == Treap_insert_recursive_no_rotation(s1, s1.h[node].right, new_post)
                  IN  [s |-> [r.s EXCEPT !.h[node].right = r.node], node |-> node]

RECURSIVE Treap_insert_recursive(_, _, _)
Treap_insert_recursive(s, node, new_post) ==
    IF node = Nil
    THEN LET a == Alloc(s.h)
         IN  [s |-> [s EXCEPT !.h = Store(s.h, a, Node(new_post))], node |-> a]
    ELSE LET s1 == [s EXCEPT !.cmp = @ + 1]
         IN  IF new_post.timestamp < s1.h[node].post.timestamp
             THEN LET r  == Treap_insert_recursive(s1, s1.h[node].left, new_post)
                      s2 == [r.s EXCEPT !.h[node].left = r.node]
                  IN  IF s2.h[s2.h[node].left].priority > s2.h[node].priority
                      THEN Treap_right_rotate(s2, node)
                      ELSE [s |-> s2, node |-> node]
             ELSE LET r  == Treap_insert_recursive(s1, s1.h[node].right, new_post)
                      s2 == [r.s EXCEPT !.h[node].right = r.node]
                  IN  IF s2.h[s2.h[node].right].priority > s2.h[node].priority
                      THEN Treap_left_rotate(s2, node)
                      ELSE [s |-> s2, node |-> node]

RECURSIVE Treap_like_recursive(_, _, _)
Treap_like_recursive(s, node, post_id) ==
    IF node = Nil THEN [s |-> s, node |-> Nil, found |-> FALSE]
    ELSE IF s.h[node].post.post_id = post_id
    THEN [s |-> [s EXCEPT !.h[node].post.score = @ + 1,
                          !.h[node].priority = @ + 1],
          node |-> node, found |-> TRUE]
    ELSE LET l == Treap_like_recursive(s, s.h[node].left, post_id)
         IN  IF l.found
             THEN LET s2 == [l.s EXCEPT !.h[node].left = l.node]
                      res == IF s2.h[s2.h[node].left].priority > s2.h[node].priority
                             THEN Treap_right_rotate(s2, node)
                             ELSE [s |-> s2, node |-> node]
                  IN  [s |-> res.s, node |-> res.node, found |-> TRUE]
             ELSE LET r == Treap_like_recursive(l.s, l.s.h[node].right, post_id)
                  IN  IF r.found
                      THEN LET s2 == [r.s EXCEPT !.h[node].right = r.node]
                               res == IF s2.h[s2.h[node].right].priority > s2.h[node].priority
                                      THEN Treap_left_rotate(s2, node)
                                      ELSE [s |-> s2, node |-> node]
                           IN  [s |-> res.s, node |-> res.node, found |-> TRUE]
                      ELSE [s |-> r.s, node |-> node, found |-> FALSE]

RECURSIVE Treap_contains(_, _, _)
Treap_contains(h, node, post_id) ==
    IF node = Nil THEN FALSE
    ELSE IF h[node].post.post_id = post_id THEN TRUE
    ELSE Treap_contains(h, h[node].left, post_id) \/ Treap_contains(h, h[node].right, post_id)

\* a delete that rotates the node down over its child of lower priority
RECURSIVE Treap_delete_recursive_lower_child(_, _, _)
Treap_delete_recursive_lower_child(s, node, post_id) ==
    IF node = Nil THEN [s |-> s, node |-> Nil]
    ELSE IF s.h[node].post.post_id = post_id
    THEN LET l == s.h[node].left
             r == s.h[node].right
             down_right ==
                 LET rot == Treap_right_rotate(s, node)
                     s1  == Push(Step(rot.s, rot.node, node), rot.node, "right")
                     d   == Treap_delete_recursive_lower_child(s1, s1.h[rot.node].right, post_id)
                 IN  [s |-> Pop([d.s EXCEPT !.h[rot.node].right = d.node]), node |-> rot.node]
             down_left ==
                 LET rot == Treap_left_rotate(s, node)
                     s1  == Push(Step(rot.s, rot.node, node), rot.node, "left")
                     d   == Treap_delete_recursive_lower_child(s1, s1.h[rot.node].left, post_id)
                 IN  [s |-> Pop([d.s EXCEPT !.h[rot.node].left = d.node]), node |-> rot.node]
         IN  IF l = Nil /\ r = Nil THEN [s |-> s, node |-> Nil]
             ELSE IF l # Nil /\ r # Nil
             THEN IF s.h[l].priority < s.h[r].priority THEN down_right ELSE down_left
             ELSE IF l # Nil THEN down_right
             ELSE down_left
    ELSE IF Treap_contains(s.h, s.h[node].left, post_id)
         THEN LET d == Treap_delete_recursive_lower_child(Push(s, node, "left"),
                                                          s.h[node].left, post_id)
              IN  [s |-> Pop([d.s EXCEPT !.h[node].left = d.node]), node |-> node]
         ELSE LET d == Treap_delete_recursive_lower_child(Push(s, node, "right"),
                                                          s.h[node].right, post_id)
              IN  [s |-> Pop([d.s EXCEPT !.h[node].right = d.node]), node |-> node]

RECURSIVE Treap_delete_recursive(_, _, _)
Treap_delete_recursive(s, node, post_id) ==
    IF node = Nil THEN [s |-> s, node |-> Nil]
    ELSE IF s.h[node].post.post_id = post_id
    THEN LET l == s.h[node].left
             r == s.h[node].right
             down_right ==   \* rotate right, go on in the new right child
                 LET rot == Treap_right_rotate(s, node)
                     s1  == Push(Step(rot.s, rot.node, node), rot.node, "right")
                     d   == Treap_delete_recursive(s1, s1.h[rot.node].right, post_id)
                 IN  [s |-> Pop([d.s EXCEPT !.h[rot.node].right = d.node]), node |-> rot.node]
             down_left ==    \* rotate left, go on in the new left child
                 LET rot == Treap_left_rotate(s, node)
                     s1  == Push(Step(rot.s, rot.node, node), rot.node, "left")
                     d   == Treap_delete_recursive(s1, s1.h[rot.node].left, post_id)
                 IN  [s |-> Pop([d.s EXCEPT !.h[rot.node].left = d.node]), node |-> rot.node]
         IN  IF l = Nil /\ r = Nil THEN [s |-> s, node |-> Nil]
             ELSE IF l # Nil /\ r # Nil
             THEN IF s.h[l].priority > s.h[r].priority THEN down_right ELSE down_left
             ELSE IF l # Nil THEN down_right
             ELSE down_left
    ELSE IF Treap_contains(s.h, s.h[node].left, post_id)
         THEN LET d == Treap_delete_recursive(Push(s, node, "left"), s.h[node].left, post_id)
              IN  [s |-> Pop([d.s EXCEPT !.h[node].left = d.node]), node |-> node]
         ELSE LET d == Treap_delete_recursive(Push(s, node, "right"), s.h[node].right, post_id)
              IN  [s |-> Pop([d.s EXCEPT !.h[node].right = d.node]), node |-> node]

\* self.getMostPopular(): <<the record at the root>>, or <<>> for None
Treap_getMostPopular(h, self) ==
    IF self.root # Nil THEN <<h[self.root].post>> ELSE <<>>

\* a split that sends a timestamp equal to the key to the right
RECURSIVE Treap_split_strict(_, _, _)
Treap_split_strict(h, root, key) ==
    IF root = Nil THEN [h |-> h, left |-> Nil, right |-> Nil]
    ELSE IF h[root].post.timestamp < key
    THEN LET r == Treap_split_strict(h, h[root].right, key)
         IN  [h |-> [r.h EXCEPT ![root].right = r.left], left |-> root, right |-> r.right]
    ELSE LET l == Treap_split_strict(h, h[root].left, key)
         IN  [h |-> [l.h EXCEPT ![root].left = l.right], left |-> l.left, right |-> root]

RECURSIVE Treap_split(_, _, _)
Treap_split(h, root, key) ==
    IF root = Nil THEN [h |-> h, left |-> Nil, right |-> Nil]
    ELSE IF h[root].post.timestamp <= key
    THEN LET r == Treap_split(h, h[root].right, key)
         IN  [h |-> [r.h EXCEPT ![root].right = r.left], left |-> root, right |-> r.right]
    ELSE LET l == Treap_split(h, h[root].left, key)
         IN  [h |-> [l.h EXCEPT ![root].left = l.right], left |-> l.left, right |-> root]

\* a merge that overwrites the right child with the right part of the split
RECURSIVE Treap_union_recursive_overwrite_right(_, _, _)
Treap_union_recursive_overwrite_right(h, t1, t2) ==
    IF t1 = Nil THEN [h |-> h, node |-> t2]
    ELSE IF t2 = Nil THEN [h |-> h, node |-> t1]
    ELSE LET hi == IF h[t1].priority < h[t2].priority THEN t2 ELSE t1
             lo == IF h[t1].priority < h[t2].priority THEN t1 ELSE t2
             sp == Treap_split(h, lo, h[hi].post.timestamp)
             ul == Treap_union_recursive_overwrite_right(sp.h, sp.h[hi].left, sp.left)
             h1 == [ul.h EXCEPT ![hi].left = ul.node]
         IN  [h |-> [h1 EXCEPT ![hi].right = sp.right], node |-> hi]

\* a merge that gives up as soon as one side is empty
RECURSIVE Treap_union_recursive_empty_side(_, _, _)
Treap_union_recursive_empty_side(h, t1, t2) ==
    IF t1 = Nil \/ t2 = Nil THEN [h |-> h, node |-> t1]
    ELSE LET hi == IF h[t1].priority < h[t2].priority THEN t2 ELSE t1
             lo == IF h[t1].priority < h[t2].priority THEN t1 ELSE t2
             sp == Treap_split(h, lo, h[hi].post.timestamp)
             ul == Treap_union_recursive_empty_side(sp.h, sp.h[hi].left, sp.left)
             h1 == [ul.h EXCEPT ![hi].left = ul.node]
             ur == Treap_union_recursive_empty_side(h1, h1[hi].right, sp.right)
         IN  [h |-> [ur.h EXCEPT ![hi].right = ur.node], node |-> hi]

RECURSIVE Treap_union_recursive(_, _, _)
Treap_union_recursive(h, t1, t2) ==
    IF t1 = Nil THEN [h |-> h, node |-> t2]
    ELSE IF t2 = Nil THEN [h |-> h, node |-> t1]
    ELSE LET hi == IF h[t1].priority < h[t2].priority THEN t2 ELSE t1
             lo == IF h[t1].priority < h[t2].priority THEN t1 ELSE t2
             sp == Treap_split(h, lo, h[hi].post.timestamp)
             ul == Treap_union_recursive(sp.h, sp.h[hi].left, sp.left)
             h1 == [ul.h EXCEPT ![hi].left = ul.node]
             ur == Treap_union_recursive(h1, h1[hi].right, sp.right)
         IN  [h |-> [ur.h EXCEPT ![hi].right = ur.node], node |-> hi]

\* a union that also returns at once when the receiver is empty
Treap_union_skips_empty_receiver(h, self, other_treap) ==
    IF other_treap.root = Nil \/ self.root = Nil THEN [h |-> h, self |-> self]
    ELSE LET u == Treap_union_recursive(h, self.root, other_treap.root)
         IN  [h |-> u.h,
              self |-> [self EXCEPT !.root = u.node,
                                    !.rotations_count = @ + other_treap.rotations_count]]

\* self.union(other_treap): the store and the receiver afterwards
Treap_union(h, self, other_treap) ==
    IF other_treap.root = Nil THEN [h |-> h, self |-> self]
    ELSE LET u == Treap_union_recursive(h, self.root, other_treap.root)
         IN  [h |-> u.h,
              self |-> [self EXCEPT !.root = u.node,
                                    !.rotations_count = @ + other_treap.rotations_count]]

----------------------------------------------------------------------------
(* BST (src/src/Binary Search Tree/bst.py).  The context s carries the     *)
(* store and self.comparisons (s.cmp).                                     *)

\* BST.__init__
NewBST == [root |-> Nil, comparisons |-> 0, operations_count |-> 0]

\* an insert that sends an equal timestamp to the left
RECURSIVE BST_insert_recursive_ties_left(_, _, _)
BST_insert_recursive_ties_left(s, node, new_post) ==
    LET s1 == [s EXCEPT !.cmp = @ + 1]
    IN  IF new_post.timestamp <= s1.h[node].post.timestamp
        THEN IF s1.h[node].left = Nil
             THEN LET a == Alloc(s1.h)
                  IN  [s1 EXCEPT !.h = [Store(s1.h, a, Node(new_post)) EXCEPT ![node].left = a]]
             ELSE BST_insert_recursive_ties_left(s1, s1.h[node].left, new_post)
        ELSE IF s1.h[node].right = Nil
             THEN LET a == Alloc(s1.h)
                  IN  [s1 EXCEPT !.h = [Store(s1.h, a, Node(new_post)) EXCEPT ![node].right = a]]
             ELSE BST_insert_recursive_ties_left(s1, s1.h[node].right, new_post)

\* an insert that descends with the comparison turned around
RECURSIVE BST_insert_recursive_inverted(_, _, _)
BST_insert_recursive_inverted(s, node, new_post) ==
    LET s1 == [s EXCEPT !.cmp = @ + 1]
    IN  IF new_post.timestamp > s1.h[node].post.timestamp
        THEN IF s1.h[node].left = Nil
             THEN LET a == Alloc(s1.h)
                  IN  [s1 EXCEPT !.h = [Store(s1.h, a, Node(new_post)) EXCEPT ![node].left = a]]
             ELSE BST_insert_recursive_inverted(s1, s1.h[node].left, new_post)
        ELSE IF s1.h[node].right = Nil
             THEN LET a == Alloc(s1.h)
                  IN  [s1 EXCEPT !.h = [Store(s1.h, a, Node(new_post)) EXCEPT ![node].right = a]]
             ELSE BST_insert_recursive_inverted(s1, s1.h[node].right, new_post)

\* an insert that puts the record in the place of one with the same timestamp
RECURSIVE BST_insert_recursive_replaces_equal(_, _, _)
BST_insert_recursive_replaces_equal(s, node, new_post) ==
    LET s1 == [s EXCEPT !.cmp = @ + 1]
    IN  IF new_post.timestamp = s1.h[node].post.timestamp
        THEN [s1 EXCEPT !.h[node].post = new_post]
        ELSE IF new_post.timestamp < s1.h[node].post.timestamp
        THEN IF s1.h[node].left = Nil
             THEN LET a == Alloc(s1.h)
                  IN  [s1 EXCEPT !.h = [Store(s1.h, a, Node(new_post)) EXCEPT ![node].left = a]]
             ELSE BST_insert_recursive_replaces_equal(s1, s1.h[node].left, new_post)
        ELSE IF s1.h[node].right = Nil
             THEN LET a == Alloc(s1.h)
                  IN  [s1 EXCEPT !.h = [Store(s1.h, a, Node(new_post)) EXCEPT ![node].right = a]]
             ELSE BST_insert_recursive_replaces_equal(s1, s1.h[node].right, new_post)

\* called on an existing node only; returns the context, the links are set in place
RECURSIVE BST_insert_recursive(_, _, _)
BST_insert_recursive(s, node, new_post) ==
    LET s1 == [s EXCEPT !.cmp = @ + 1]
    IN  IF new_post.timestamp < s1.h[node].post.timestamp
        THEN IF s1.h[node].left = Nil
             THEN LET a == Alloc(s1.h)
                  IN  [s1 EXCEPT !.h = [Store(s1.h, a, Node(new_post)) EXCEPT ![node].left = a]]
             ELSE BST_insert_recursive(s1, s1.h[node].left, new_post)
        ELSE IF s1.h[node].right = Nil
             THEN LET a == Alloc(s1.h)
                  IN  [s1 EXCEPT !.h = [Store(s1.h, a, Node(new_post)) EXCEPT ![node].right = a]]
             ELSE BST_insert_recursive(s1, s1.h[node].right, new_post)

\* an addPost that makes every new node the root
BST_addPost_always_root(s, self, new_post) ==
    LET a == Alloc(s.h)
    IN  [s |-> [s EXCEPT !.h = Store(s.h, a, Node(new_post))], root |-> a]

\* self.addPost(post_id, timestamp, score)
BST_addPost(s, self, new_post) ==
    IF self.root = Nil
    THEN LET a == Alloc(s.h)
         IN  [s |-> [s EXCEPT !.h = Store(s.h, a, Node(new_post))], root |-> a]
    ELSE [s |-> BST_insert_recursive(s, self.root, new_post), root |-> self.root]

\* a search that follows only the left links
RECURSIVE BST_search_by_id_left_only(_, _, _)
BST_search_by_id_left_only(h, node, post_id) ==
    IF node = Nil THEN Nil
    ELSE IF h[node].post.post_id = post_id THEN node
    ELSE BST_search_by_id_left_only(h, h[node].left, post_id)

RECURSIVE BST_search_by_id(_, _, _)
BST_search_by_id(h, node, post_id) ==
    IF node = Nil THEN Nil
    ELSE IF h[node].post.post_id = post_id THEN node
    ELSE LET res1 == BST_search_by_id(h, h[node].left, post_id)
         IN  IF res1 # Nil THEN res1 ELSE BST_search_by_id(h, h[node].right, post_id)

\* a likePost that also swaps the children of the node it likes
BST_likePost_swaps_children(h, self, post_id) ==
    LET target_node == BST_search_by_id(h, self.root, post_id)
    IN  IF target_node # Nil
        THEN [h |-> [h EXCEPT ![target_node].post.score = @ + 1,
                              ![target_node].left = h[target_node].right,
                              ![target_node].right = h[target_node].left],
              ret |-> TRUE]
        ELSE [h |-> h, ret |-> FALSE]

\* a likePost that likes every record that carries the id
BST_likePost_every_match(h, self, post_id) ==
    [h |-> [a \in DOMAIN h |->
               IF a \in Reach(h, self.root) /\ h[a].post.post_id = post_id
               THEN [h[a] EXCEPT !.post.score = @ + 1] ELSE h[a]],
     ret |-> BST_search_by_id(h, self.root, post_id) # Nil]

\* self.likePost(post_id): the store afterwards and the value returned
BST_likePost(h, self, post_id) ==
    LET target_node == BST_search_by_id(h, self.root, post_id)
    IN  IF target_node # Nil
        THEN [h |-> [h EXCEPT ![target_node].post.score = @ + 1], ret |-> TRUE]
        ELSE [h |-> h, ret |-> FALSE]

\* a successor search that stops at the top of the right subtree
BST_get_min_node_no_descent(h, node) == node

RECURSIVE BST_get_min_node(_, _)
BST_get_min_node(h, node) ==
    IF h[node].left # Nil THEN BST_get_min_node(h, h[node].left) ELSE node

RECURSIVE BST_delete_recursive_by_obj(_, _, _)
BST_delete_recursive_by_obj(h, node, target_node) ==
    IF node = Nil THEN [h |-> h, node |-> Nil]
    ELSE IF node = target_node THEN [h |-> h, node |-> h[node].right]
    ELSE LET d == BST_delete_recursive_by_obj(h, h[node].left, target_node)
         IN  [h |-> [d.h EXCEPT ![node].left = d.node], node |-> node]

RECURSIVE BST_delete_recursive(_, _, _)
BST_delete_recursive(h, node, post_id) ==
    IF node = Nil THEN [h |-> h, node |-> Nil]
    ELSE IF h[node].post.post_id = post_id
    THEN IF h[node].left = Nil /\ h[node].right = Nil THEN [h |-> h, node |-> Nil]
         ELSE IF h[node].left = Nil THEN [h |-> h, node |-> h[node].right]
         ELSE IF h[node].right = Nil THEN [h |-> h, node |-> h[node].left]
         ELSE LET temp == BST_get_min_node(h, h[node].right)
                  h1   == [h EXCEPT ![node].post = h[temp].post,
                                    ![node].priority = h[temp].priority]
                  d    == BST_delete_recursive_by_obj(h1, h1[node].right, temp)
              IN  [h |-> [d.h EXCEPT ![node].right = d.node], node |-> node]
    ELSE LET dl == BST_delete_recursive(h, h[node].left, post_id)
             h1 == [dl.h EXCEPT ![node].left = dl.node]
             dr == BST_delete_recursive(h1, h1[node].right, post_id)
         IN  [h |-> [dr.h EXCEPT ![node].right = dr.node], node |-> node]

----------------------------------------------------------------------------
(* The public methods, as store transformers *)

\* self.addPost(post_id, timestamp, score)
Treap_addPost(h, self, new_post) ==
    LET r == Treap_insert_recursive(Ctx(h, self), self.root, new_post)
    IN  [h |-> r.s.h,
         self |-> [root |-> r.node, rotations_count |-> r.s.rot, comparisons |-> r.s.cmp]]

\* self.likePost(post_id)
Treap_likePost(h, self, post_id) ==
    LET r == Treap_like_recursive(Ctx(h, self), self.root, post_id)
    IN  [h |-> r.s.h,
         self |-> [root |-> r.node, rotations_count |-> r.s.rot, comparisons |-> r.s.cmp],
         ret |-> r.found]

\* self.deletePost(post_id); the method has no return statement, its value
\* is None, written <<>>
Treap_deletePost(h, self, post_id) ==
    LET r == Treap_delete_recursive(Ctx(h, self), self.root, post_id)
    IN  [h |-> r.s.h,
         self |-> [root |-> r.node, rotations_count |-> r.s.rot, comparisons |-> r.s.cmp],
         ret |-> <<>>]

\* self.deletePost(post_id); no return statement here either
BST_deletePost(h, self, post_id) ==
    LET r == BST_delete_recursive(h, self.root, post_id)
    IN  [h |-> r.h, self |-> [self EXCEPT !.root = r.node], ret |-> <<>>]

\* a scan that never visits a right subtree
RECURSIVE BST_find_max_score_recursive_left_only(_, _)
BST_find_max_score_recursive_left_only(s, node) ==
    IF node = Nil THEN s
    ELSE LET s1 == IF s.h[node].post.score > s.max_post.score
                   THEN [s EXCEPT !.max_post = s.h[node].post] ELSE s
         IN  BST_find_max_score_recursive_left_only(s1, s1.h[node].left)

\* the scan of getMostPopular; s.max_post is self.max_post, the best record
\* so far, which every call of getMostPopular sets anew before it reads it
RECURSIVE BST_find_max_score_recursive(_, _)
BST_find_max_score_recursive(s, node) ==
    IF node = Nil THEN s
    ELSE LET s1 == IF s.h[node].post.score > s.max_post.score
                   THEN [s EXCEPT !.max_post = s.h[node].post] ELSE s
             s2 == BST_find_max_score_recursive(s1, s1.h[node].left)
         IN  BST_find_max_score_recursive(s2, s2.h[node].right)

\* self.getMostPopular(): the store afterwards, and <<record>>, or <<>> for None
BST_getMostPopular(h, self) ==
    IF self.root = Nil THEN [h |-> h, ret |-> <<>>]
    ELSE LET s == BST_find_max_score_recursive([h |-> h, max_post |-> h[self.root].post],
                                               self.root)
         IN  [h |-> s.h, ret |-> <<s.max_post>>]

\* a traversal that goes left before right
RECURSIVE BST_reverse_inorder_left_first(_, _, _, _)
BST_reverse_inorder_left_first(h, node, k, results) ==
    IF node = Nil \/ Len(results) >= k THEN results
    ELSE LET r1 == BST_reverse_inorder_left_first(h, h[node].left, k, results)
             r2 == IF Len(r1) < k THEN Append(r1, h[node].post) ELSE r1
         IN  BST_reverse_inorder_left_first(h, h[node].right, k, r2)

RECURSIVE BST_reverse_inorder(_, _, _, _)
BST_reverse_inorder(h, node, k, results) ==
    IF node = Nil \/ Len(results) >= k THEN results
    ELSE LET r1 == BST_reverse_inorder(h, h[node].right, k, results)
             r2 == IF Len(r1) < k THEN Append(r1, h[node].post) ELSE r1
         IN  BST_reverse_inorder(h, h[node].left, k, r2)

\* self.getMostRecent(k)
BST_getMostRecent(h, self, k) == BST_reverse_inorder(h, self.root, k, <<>>)

\* the attributes a method call can find on an instance of each class
BSTMethods == {"addPost", "_insert_recursive", "likePost", "deletePost",
               "_delete_recursive", "_delete_recursive_by_obj", "_get_min_node",
               "_search_by_id", "getMostPopular", "_find_max_score_recursive",
               "getMostRecent", "_reverse_inorder"}
TreapMethods == {"_right_rotate", "_left_rotate", "addPost", "_insert_recursive",
                 "likePost", "_like_recursive", "deletePost", "_delete_recursive",
                 "_contains", "getMostPopular", "split", "union", "_union_recursive"}

\* tree.getMostRecent(k) on an instance of the class with these methods: the
\* attribute lookup comes first and fails on a class without the method
CallGetMostRecent(methods, h, self, k) ==
    IF "getMostRecent" \in methods
    THEN [error |-> "", ret |-> BST_getMostRecent(h, self, k)]
    ELSE [error |-> "AttributeError", ret |-> <<>>]

----------------------------------------------------------------------------
(* utils.get_structural_metrics, which partitionMain.py imports and calls on *)
(* master_treap.root: one bottom-up pass that returns                        *)
(* (height, total absolute balance factor, node count).                      *)

AbsDiff(x, y) == IF x > y THEN x - y ELSE y - x

\* a pass that takes the height of the left subtree for the height
RECURSIVE get_structural_metrics_left_height(_, _)
get_structural_metrics_left_height(h, node) ==
    IF node = Nil THEN <<0, 0, 0>>
    ELSE LET l == get_structural_metrics_left_height(h, h[node].left)
             r == get_structural_metrics_left_height(h, h[node].right)
         IN  <<1 + l[1], AbsDiff(l[1], r[1]) + l[2] + r[2], 1 + l[3] + r[3]>>

RECURSIVE get_structural_metrics(_, _)
get_structural_metrics(h, node) ==
    IF node = Nil THEN <<0, 0, 0>>
    ELSE LET l == get_structural_metrics(h, h[node].left)
             r == get_structural_metrics(h, h[node].right)
         IN  <<1 + (IF l[1] > r[1] THEN l[1] ELSE r[1]),
               AbsDiff(l[1], r[1]) + l[2] + r[2],
               1 + l[3] + r[3]>>

----------------------------------------------------------------------------
(* State *)

Roots(b, ts) == <<b.root, ts[Master].root, ts[Temp].root, ts[Third].root>>

\* number of Node objects the trees hold
BSTSize(h, b) == Cardinality(Reach(h, b.root))
TreapsSize(h, ts) == Cardinality(UNION {Reach(h, ts[i].root) : i \in TreapIds})

\* the exploration stays inside the bounds
InBounds(h, b, ts) ==
    /\ BSTSize(h, b) + TreapsSize(h, ts) <= MaxNodes
    /\ \A a \in DOMAIN h : h[a].post.score <= MaxScore
    /\ b.comparisons <= MaxCount
    /\ \A i \in TreapIds : ts[i].comparisons <= MaxCount /\ ts[i].rotations_count <= MaxCount

NoRet == [popular |-> <<>>, recent |-> <<>>, error |-> ""]
NoTest == [posts |-> <<>>, liked |-> "", deleted |-> ""]

Init ==
    /\ mem = <<>>
    /\ bst = NewBST
    /\ treaps = [i \in TreapIds |-> NewTreap]
    /\ consumed = {}
    /\ run \in {"BST", "Treap", "n-Treaps"}
    /\ pc = 0
    /\ test = NoTest
    /\ ret = NoRet

\* the next state, once the methods have returned
Commit(h, b, ts, c) ==
    /\ LET live == LiveOrder(h, Roots(b, ts))
       IN  /\ mem' = Collect(h, live)
           /\ bst' = [b EXCEPT !.root = Move(live, @)]
           /\ treaps' = [i \in TreapIds |-> [ts[i] EXCEPT !.root = Move(live, @)]]
    /\ consumed' = c

\* a step of the exploration: it is taken when it stays inside the bounds
Explore(h, b, ts, c) ==
    /\ pc = 0
    /\ InBounds(h, b, ts)
    /\ Commit(h, b, ts, c)
    /\ UNCHANGED <<run, pc, test, ret>>

----------------------------------------------------------------------------
(* bstMain.py, and utils.run_mandated_test_case on a BST *)

BSTAddPost(post_id, timestamp, score) ==
    /\ run = "BST"
    /\ LET rb == BST_addPost([h |-> mem, cmp |-> bst.comparisons], bst,
                             Post(post_id, timestamp, score))
       IN  Explore(rb.s.h, [bst EXCEPT !.root = rb.root, !.comparisons = rb.s.cmp],
                   treaps, consumed)

BSTLikePost(post_id) ==
    /\ run = "BST"
    /\ LET rb == BST_likePost(mem, bst, post_id)
       IN  Explore(rb.h, bst, treaps, consumed)

BSTDeletePost(post_id) ==
    /\ run = "BST"
    /\ LET rb == BST_deletePost(mem, bst, post_id)
       IN  Explore(rb.h, rb.self, treaps, consumed)

----------------------------------------------------------------------------
(* treapMain.py, and utils.run_mandated_test_case on a Treap *)

TreapAddPost(post_id, timestamp, score) ==
    /\ run = "Treap"
    /\ LET rt == Treap_addPost(mem, treaps[Master], Post(post_id, timestamp, score))
       IN  Explore(rt.h, bst, [treaps EXCEPT ![Master] = rt.self], consumed)

TreapLikePost(post_id) ==
    /\ run = "Treap"
    /\ LET rt == Treap_likePost(mem, treaps[Master], post_id)
       IN  Explore(rt.h, bst, [treaps EXCEPT ![Master] = rt.self], consumed)

TreapDeletePost(post_id) ==
    /\ run = "Treap"
    /\ LET rt == Treap_deletePost(mem, treaps[Master], post_id)
       IN  Explore(rt.h, bst, [treaps EXCEPT ![Master] = rt.self], consumed)

----------------------------------------------------------------------------
(* partitionMain.py: partitions are built apart and folded into a receiver. *)
(* A Treap that was the donor of a union is not used again before it is     *)
(* deleted (spec section 5, partitionMain.py line 75).                      *)

\* temp_treap.addPost(pid, ts, score)
ChunkAddPost(i, post_id, timestamp, score) ==
    /\ run = "n-Treaps"
    /\ i \notin consumed
    /\ LET rt == Treap_addPost(mem, treaps[i], Post(post_id, timestamp, score))
       IN  Explore(rt.h, bst, [treaps EXCEPT ![i] = rt.self], consumed)

\* treaps[i].union(treaps[j]); the donor object is left as the method leaves it
Union(i, j) ==
    /\ run = "n-Treaps"
    /\ i # j
    /\ i \notin consumed /\ j \notin consumed
    /\ LET r == Treap_union(mem, treaps[i], treaps[j])
       IN  Explore(r.h, bst, [treaps EXCEPT ![i] = r.self], consumed \cup {j})

\* del temp_treap; the next partition starts from Treap()
Discard(j) ==
    /\ run = "n-Treaps"
    /\ j \in consumed
    /\ Explore(mem, bst, [treaps EXCEPT ![j] = NewTreap], consumed \ {j})

\* left, right = treaps[i].split(treaps[i].root, key); the halves become two Treaps
Split(i, j, key) ==
    /\ run = "n-Treaps"
    /\ i # j
    /\ i \notin consumed /\ j \notin consumed
    /\ treaps[j].root = Nil
    /\ LET r == Treap_split(mem, treaps[i].root, key)
       IN  Explore(r.h, bst, [treaps EXCEPT ![i].root = r.left, ![j].root = r.right], consumed)

\* the stream has ended: the master Treap is the index, used like any Treap
EndOfStream ==
    /\ run = "n-Treaps"
    /\ consumed = {}
    /\ \A j \in TreapIds \ {Master} : treaps[j].root = Nil
    /\ run' = "Treap"
    /\ treaps' = [j \in TreapIds |-> IF j = Master THEN treaps[j] ELSE NewTreap]
    /\ UNCHANGED <<mem, bst, consumed, pc, test, ret>>

Next ==
    \/ \E id \in Ids, ts \in Timestamps, sc \in Scores : BSTAddPost(id, ts, sc)
    \/ \E id \in Ids : BSTLikePost(id)
    \/ \E id \in Ids : BSTDeletePost(id)
    \/ \E id \in Ids, ts \in Timestamps, sc \in Scores : TreapAddPost(id, ts, sc)
    \/ \E id \in Ids : TreapLikePost(id)
    \/ \E id \in Ids : TreapDeletePost(id)
    \/ \E id \in Ids, ts \in Timestamps, sc \in Scores : ChunkAddPost(Temp, id, ts, sc)
    \/ Union(Master, Temp)
    \/ Discard(Temp)
    \/ \E key \in Timestamps : Split(Master, Temp, key)
    \/ EndOfStream

Spec == Init /\ [][Next]_vars

\* one tree on its own, a BST or a Treap, under addPost, likePost and
\* deletePost in any order (the calls of utils.run_mandated_test_case); no
\* partitions
InitMain == Init /\ run \in {"BST", "Treap"}

NextMain ==
    \/ \E id \in Ids, ts \in Timestamps, sc \in Scores : BSTAddPost(id, ts, sc)
    \/ \E id \in Ids : BSTLikePost(id)
    \/ \E id \in Ids : BSTDeletePost(id)
    \/ \E id \in Ids, ts \in Timestamps, sc \in Scores : TreapAddPost(id, ts, sc)
    \/ \E id \in Ids : TreapLikePost(id)
    \/ \E id \in Ids : TreapDeletePost(id)

SpecMain == InitMain /\ [][NextMain]_vars

----------------------------------------------------------------------------
(* utils.run_mandated_test_case(tree, tree_name): five posts are added, one  *)
(* is liked twice, one is deleted, then the tree is queried.  The test case  *)
(* of the specification also asks for the most recent post.                  *)

\* the posts of the test case, as the source names them and as the
\* specification abbreviates them
SourceCase ==
    [posts |-> << Post("ejualnb", 1554076800, 55), Post("ejualnc", 1554076800, 12),
                  Post("ejualnd", 1554076800, 27), Post("ejualne", 1554076800, 14),
                  Post("ejualnl", 1554076809, 13) >>,
     liked |-> "ejualnl", deleted |-> "ejualnc"]
SpecCase ==
    [posts |-> << Post("a", 100, 55), Post("b", 100, 12), Post("c", 100, 27),
                  Post("d", 100, 14), Post("e", 109, 13) >>,
     liked |-> "e", deleted |-> "b"]

\* the same posts in every order of arrival
Reordered(case) ==
    {[case EXCEPT !.posts = [k \in DOMAIN case.posts |-> case.posts[f[k]]]] :
        f \in {g \in [DOMAIN case.posts -> DOMAIN case.posts] :
                  \A x, y \in DOMAIN case.posts : g[x] = g[y] => x = y}}

NumPosts == 5
LikeSteps == {NumPosts + 1, NumPosts + 2}
DeleteStep == NumPosts + 3
PopularStep == NumPosts + 4
RecentStep == NumPosts + 5
TestDone == NumPosts + 6

InitTest ==
    /\ mem = <<>>
    /\ bst = NewBST
    /\ treaps = [i \in TreapIds |-> NewTreap]
    /\ consumed = {}
    /\ run \in {"BST", "Treap"}
    /\ pc = 1
    /\ test \in Reordered(SourceCase) \cup Reordered(SpecCase)
    /\ ret = NoRet

\* Step 1: tree.addPost(pid, ts, score) for the next post of the list
TestAddPost ==
    /\ pc \in 1 .. NumPosts
    /\ IF run = "Treap"
       THEN LET rt == Treap_addPost(mem, treaps[Master], test.posts[pc])
            IN  Commit(rt.h, bst, [treaps EXCEPT ![Master] = rt.self], consumed)
       ELSE LET rb == BST_addPost([h |-> mem, cmp |-> bst.comparisons], bst, test.posts[pc])
            IN  Commit(rb.s.h, [bst EXCEPT !.root = rb.root, !.comparisons = rb.s.cmp],
                       treaps, consumed)
    /\ pc' = pc + 1
    /\ UNCHANGED <<run, test, ret>>

\* Step 2: tree.likePost(id), twice
TestLikePost ==
    /\ pc \in LikeSteps
    /\ IF run = "Treap"
       THEN LET rt == Treap_likePost(mem, treaps[Master], test.liked)
            IN  Commit(rt.h, bst, [treaps EXCEPT ![Master] = rt.self], consumed)
       ELSE LET rb == BST_likePost(mem, bst, test.liked)
            IN  Commit(rb.h, bst, treaps, consumed)
    /\ pc' = pc + 1
    /\ UNCHANGED <<run, test, ret>>

\* Step 3: tree.deletePost(id)
TestDeletePost ==
    /\ pc = DeleteStep
    /\ IF run = "Treap"
       THEN LET rt == Treap_deletePost(mem, treaps[Master], test.deleted)
            IN  Commit(rt.h, bst, [treaps EXCEPT ![Master] = rt.self], consumed)
       ELSE LET rb == BST_deletePost(mem, bst, test.deleted)
            IN  Commit(rb.h, rb.self, treaps, consumed)
    /\ pc' = pc + 1
    /\ UNCHANGED <<run, test, ret>>

\* Step 4: popular = tree.getMostPopular()
TestGetMostPopular ==
    /\ pc = PopularStep
    /\ ret' = [ret EXCEPT !.popular = IF run = "Treap"
                                      THEN Treap_getMostPopular(mem, treaps[Master])
                                      ELSE BST_getMostPopular(mem, bst).ret]
    /\ pc' = pc + 1
    /\ UNCHANGED <<mem, bst, treaps, consumed, run, test>>

\* tree.getMostRecent(1): the attribute lookup fails on a class without it
TestGetMostRecent ==
    /\ pc = RecentStep
    /\ ret' = IF "getMostRecent" \in (IF run = "Treap" THEN TreapMethods ELSE BSTMethods)
              THEN [ret EXCEPT !.recent = BST_getMostRecent(mem, bst, 1)]
              ELSE [ret EXCEPT !.error = "AttributeError"]
    /\ pc' = TestDone
    /\ UNCHANGED <<mem, bst, treaps, consumed, run, test>>

NextTest ==
    \/ TestAddPost
    \/ TestLikePost
    \/ TestDeletePost
    \/ TestGetMostPopular
    \/ TestGetMostRecent

SpecTest == InitTest /\ [][NextTest]_vars

----------------------------------------------------------------------------
(* main.run_simulation: every post of the stream is added to a BST and to a  *)
(* Treap, and now and then a post seen before is liked in both.  The stream  *)
(* of this exploration carries every id and every timestamp once.            *)

\* the posts the stream can deliver, in any order: the timestamp tells the id,
\* and the scores alternate between the two of Scores
StreamIds == <<"a", "b", "c", "d", "e", "f">>
StreamPosts == {Post(StreamIds[t], t, 1 + (t % 2)) : t \in 1 .. MaxStream}

InitSim ==
    /\ mem = <<>>
    /\ bst = NewBST
    /\ treaps = [i \in TreapIds |-> NewTreap]
    /\ consumed = {}
    /\ run = "BST+Treap"
    /\ pc = 0
    /\ test = NoTest
    /\ ret = NoRet

\* my_bst.addPost(pid, ts, score); my_treap.addPost(pid, ts, score)
SimAddPost(new_post) ==
    /\ run = "BST+Treap"
    /\ new_post.post_id \notin {mem[a].post.post_id : a \in DOMAIN mem}
    /\ LET rb == BST_addPost([h |-> mem, cmp |-> bst.comparisons], bst, new_post)
           rt == Treap_addPost(rb.s.h, treaps[Master], new_post)
       IN  Commit(rt.h, [bst EXCEPT !.root = rb.root, !.comparisons = rb.s.cmp],
                  [treaps EXCEPT ![Master] = rt.self], consumed)
    /\ UNCHANGED <<run, pc, test, ret>>

\* my_bst.likePost(random_id); my_treap.likePost(random_id), for an id of
\* active_post_ids
SimLikePost(random_id) ==
    /\ run = "BST+Treap"
    /\ \E a \in DOMAIN mem : mem[a].post.post_id = random_id
    /\ \A a \in DOMAIN mem : mem[a].post.post_id = random_id => mem[a].post.score < MaxScore
    /\ LET rb == BST_likePost(mem, bst, random_id)
           rt == Treap_likePost(rb.h, treaps[Master], random_id)
       IN  Commit(rt.h, bst, [treaps EXCEPT ![Master] = rt.self], consumed)
    /\ UNCHANGED <<run, pc, test, ret>>

NextSim ==
    \/ \E new_post \in StreamPosts : SimAddPost(new_post)
    \/ \E random_id \in {StreamIds[t] : t \in 1 .. MaxStream} : SimLikePost(random_id)

SpecSim == InitSim /\ [][NextSim]_vars

----------------------------------------------------------------------------
(* bstMain.main and treapMain.main: every post of the stream is added to one *)
(* tree.  The streams of this exploration bring posts with the timestamps    *)
(* and the scores 1 .. MaxStream, each once, in every order of arrival and   *)
(* with every assignment of the scores to the timestamps.                    *)

Perms(n) == {f \in [1 .. n -> 1 .. n] : \A x, y \in 1 .. n : f[x] = f[y] => x = y}

StreamCases ==
    {[posts |-> [k \in 1 .. MaxStream |->
                    Post(StreamIds[order[k]], order[k], score[order[k]])],
      liked |-> "", deleted |-> ""] :
        order \in Perms(MaxStream), score \in Perms(MaxStream)}

InitStream ==
    /\ mem = <<>>
    /\ bst = NewBST
    /\ treaps = [i \in TreapIds |-> NewTreap]
    /\ consumed = {}
    /\ run \in {"BST", "Treap"}
    /\ pc = 1
    /\ test \in StreamCases
    /\ ret = NoRet

\* bst.addPost(pid, ts, score), or treap.addPost(pid, ts, score); count += 1
StreamAddPost ==
    /\ pc \in DOMAIN test.posts
    /\ IF run = "Treap"
       THEN LET rt == Treap_addPost(mem, treaps[Master], test.posts[pc])
            IN  Commit(rt.h, bst, [treaps EXCEPT ![Master] = rt.self], consumed)
       ELSE LET rb == BST_addPost([h |-> mem, cmp |-> bst.comparisons], bst, test.posts[pc])
            IN  Commit(rb.s.h, [bst EXCEPT !.root = rb.root, !.comparisons = rb.s.cmp],
                       treaps, consumed)
    /\ pc' = pc + 1
    /\ UNCHANGED <<run, test, ret>>

NextStream == StreamAddPost

SpecStream == InitStream /\ [][NextStream]_vars

----------------------------------------------------------------------------
(* Three partitions side by side, for the algebra of split and union *)

Init3 ==
    /\ mem = <<>>
    /\ bst = NewBST
    /\ treaps = [i \in TreapIds |-> NewTreap]
    /\ consumed = {}
    /\ run = "n-Treaps"
    /\ pc = 0
    /\ test = NoTest
    /\ ret = NoRet

Next3 ==
    \/ \E i \in TreapIds, id \in ChunkIds, ts \in Timestamps, sc \in Scores :
          ChunkAddPost(i, id, ts, sc)
    \/ \E j \in {Temp, Third} : Union(Master, j)
    \/ \E j \in {Temp, Third} : Discard(j)
    \/ \E key \in Timestamps : Split(Master, Temp, key)

Spec3 == Init3 /\ [][Next3]_vars

----------------------------------------------------------------------------
(* Observations on a tree *)

\* the nodes of the subtree of n in in-order: left, self, right
RECURSIVE InOrder(_, _)
InOrder(h, n) ==
    IF n = Nil THEN <<>>
    ELSE InOrder(h, h[n].left) \o <<n>> \o InOrder(h, h[n].right)

PostsOf(h, n) == [k \in DOMAIN InOrder(h, n) |-> h[InOrder(h, n)[k]].post]

NonDecreasing(h, n) ==
    LET io == InOrder(h, n)
    IN  \A k \in 1 .. Len(io) - 1 : h[io[k]].post.timestamp <= h[io[k + 1]].post.timestamp

\* priority of a node is at least the priority of each child it has
HeapOrdered(h, n) ==
    \A a \in Reach(h, n) :
        /\ h[a].left # Nil => h[a].priority >= h[h[a].left].priority
        /\ h[a].right # Nil => h[a].priority >= h[h[a].right].priority

TreapRoots == {treaps[i].root : i \in TreapIds}
AllRoots == {bst.root} \cup TreapRoots
Size(n) == Cardinality(Reach(mem, n))

\* the multiset of the records of a subtree
BagOfSeq(q) == [r \in {q[k] : k \in DOMAIN q} |-> Cardinality({k \in DOMAIN q : q[k] = r})]
RecordsOf(h, n) == BagOfSeq(PostsOf(h, n))

----------------------------------------------------------------------------
(* Order and heap invariants *)

\* C1: in both trees, after any sequence of insert, update, delete, split and
\* union, the in-order traversal yields the timestamps in non-decreasing order.
C1_InOrderNonDecreasing ==
    \A r \in AllRoots : NonDecreasing(mem, r)

\* a Treap of three nodes that has been rotated, the root with both subtrees
C1_Witness ==
    /\ run = "Treap"
    /\ Size(treaps[Master].root) = 3
    /\ treaps[Master].rotations_count > 0
    /\ mem[treaps[Master].root].left # Nil
    /\ mem[treaps[Master].root].right # Nil

\* C2: in the Treap, after every completed insert, update, delete, split or
\* union, the priority of a node is at least the priority of each child.
C2_HeapInvariant ==
    \A r \in TreapRoots : HeapOrdered(mem, r)

\* a Treap of three nodes with two different priorities after two rotations
C2_Witness ==
    /\ run = "Treap"
    /\ Size(treaps[Master].root) = 3
    /\ treaps[Master].rotations_count = 2
    /\ \E a \in Reach(mem, treaps[Master].root) :
           mem[a].priority < mem[treaps[Master].root].priority

\* C4: in the Treap, the priority of every node equals the score of its record
\* after every mutation.
C4_PriorityIsScore ==
    \A r \in TreapRoots : \A a \in Reach(mem, r) : mem[a].priority = mem[a].post.score

\* a Treap of three in which a node with a child carries the top score
C4_Witness ==
    /\ run = "Treap"
    /\ Size(treaps[Master].root) = 3
    /\ \E a \in Reach(mem, treaps[Master].root) :
           mem[a].post.score = MaxScore /\ mem[a].left # Nil

\* C3: after any sequence of inserts, updates and deletes that leaves the
\* Treap non-empty, getMostPopular() returns the record of the root, and its
\* score is the maximum score of the records in the tree.
C3_RootIsMostPopular ==
    \A i \in TreapIds :
        treaps[i].root # Nil =>
            LET p == Treap_getMostPopular(mem, treaps[i])[1]
            IN  /\ p = mem[treaps[i].root].post
                /\ \A a \in Reach(mem, treaps[i].root) : mem[a].post.score <= p.score
                /\ \E a \in Reach(mem, treaps[i].root) : mem[a].post = p

\* three records of two different scores, the tree rotated on the way
C3_Witness ==
    /\ run = "Treap"
    /\ Size(treaps[Master].root) = 3
    /\ treaps[Master].rotations_count > 0
    /\ Treap_getMostPopular(mem, treaps[Master])[1].score = MaxScore
    /\ \E a \in Reach(mem, treaps[Master].root) : mem[a].post.score < MaxScore

----------------------------------------------------------------------------
(* Search-tree order, node by node *)

TimestampsOf(h, n) == {h[a].post.timestamp : a \in Reach(h, n)}

\* left subtree strictly below the node, right subtree at or above it
StrictLeftOrder(h, n) ==
    \A a \in Reach(h, n) :
        /\ \A t \in TimestampsOf(h, h[a].left) : t < h[a].post.timestamp
        /\ \A t \in TimestampsOf(h, h[a].right) : t >= h[a].post.timestamp

\* left subtree at or below the node, right subtree at or above it
WeakOrder(h, n) ==
    \A a \in Reach(h, n) :
        /\ \A t \in TimestampsOf(h, h[a].left) : t <= h[a].post.timestamp
        /\ \A t \in TimestampsOf(h, h[a].right) : t >= h[a].post.timestamp

\* C5 as stated: in both trees every left subtree holds strictly smaller
\* timestamps and every right subtree greater or equal ones.
C5_TiesOnlyToTheRight ==
    \A r \in AllRoots : StrictLeftOrder(mem, r)

\* C5 amended: every left subtree holds timestamps less than or equal to the
\* node's and every right subtree greater or equal ones; in the BST the left
\* subtree is strictly smaller.
C5_OrderWithTies ==
    /\ StrictLeftOrder(mem, bst.root)
    /\ \A r \in TreapRoots : WeakOrder(mem, r)

\* a Treap node that has its own timestamp in its left subtree
C5_Witness ==
    \E i \in TreapIds : \E a \in Reach(mem, treaps[i].root) :
        /\ treaps[i].rotations_count > 0
        /\ mem[a].post.timestamp \in TimestampsOf(mem, mem[a].left)

----------------------------------------------------------------------------
(* Split and union *)

\* keys below, at and above every timestamp of the exploration
Keys == 0 .. 3

\* the Treaps a driver may still use
Usable == TreapIds \ consumed

AsTreap(root) == [NewTreap EXCEPT !.root = root]

\* C6: for a treap root that satisfies the order and heap invariants and any
\* key, split returns (left, right) where left holds exactly the records with
\* timestamp <= key and right exactly those with timestamp > key, no record is
\* lost or duplicated, and each half satisfies both invariants.
C6_SplitPartitions ==
    \A i \in Usable : \A key \in Keys :
        LET root == treaps[i].root
            sp   == Treap_split(mem, root, key)
            L    == PostsOf(sp.h, sp.left)
            R    == PostsOf(sp.h, sp.right)
        IN  /\ \A k \in DOMAIN L : L[k].timestamp <= key
            /\ \A k \in DOMAIN R : R[k].timestamp > key
            /\ BagOfSeq(L) (+) BagOfSeq(R) = RecordsOf(mem, root)
            /\ Reach(sp.h, sp.left) \cap Reach(sp.h, sp.right) = {}
            /\ NonDecreasing(sp.h, sp.left) /\ NonDecreasing(sp.h, sp.right)
            /\ HeapOrdered(sp.h, sp.left) /\ HeapOrdered(sp.h, sp.right)

\* a Treap of three that a key cuts in two by relinking a child
C6_Witness ==
    \E i \in Usable : \E key \in Keys :
        LET sp == Treap_split(mem, treaps[i].root, key)
        IN  /\ Size(treaps[i].root) = 3
            /\ sp.left # Nil /\ sp.right # Nil
            /\ sp.h # mem
            /\ \E a \in Reach(sp.h, sp.left) : mem[a].post.timestamp = key

\* C7: for two treaps, with overlapping or equal timestamps, either one
\* possibly empty, union yields a tree whose multiset of records is the sum of
\* the multisets of the two inputs.
C7_UnionKeepsRecords ==
    \A i \in Usable : \A j \in Usable \ {i} :
        LET u == Treap_union(mem, treaps[i], treaps[j])
        IN  RecordsOf(u.h, u.self.root)
                = RecordsOf(mem, treaps[i].root) (+) RecordsOf(mem, treaps[j].root)

\* two non-empty Treaps of three records in all that share a timestamp, and
\* the union relinks the receiver's nodes
C7_Witness ==
    \E i \in Usable : \E j \in Usable \ {i} :
        /\ treaps[i].root # Nil /\ treaps[j].root # Nil
        /\ Size(treaps[i].root) + Size(treaps[j].root) = 3
        /\ TimestampsOf(mem, treaps[i].root) \cap TimestampsOf(mem, treaps[j].root) # {}
        /\ mem[treaps[i].root].priority < mem[treaps[j].root].priority

\* C8: splitting a treap T by a key k into (L, R) and then unioning L and R,
\* in either argument order, yields a treap with the multiset of records of T.
C8_SplitUnionRoundTrip ==
    \A i \in Usable : \A key \in Keys :
        LET root == treaps[i].root
            sp   == Treap_split(mem, root, key)
            lr   == Treap_union(sp.h, AsTreap(sp.left), AsTreap(sp.right))
            rl   == Treap_union(sp.h, AsTreap(sp.right), AsTreap(sp.left))
        IN  /\ RecordsOf(lr.h, lr.self.root) = RecordsOf(mem, root)
            /\ RecordsOf(rl.h, rl.self.root) = RecordsOf(mem, root)

\* a Treap of three that the key cuts into two non-empty halves
C8_Witness ==
    \E i \in Usable : \E key \in Keys :
        LET sp == Treap_split(mem, treaps[i].root, key)
        IN  /\ Size(treaps[i].root) = 3
            /\ sp.left # Nil /\ sp.right # Nil
            /\ mem[treaps[i].root].post.timestamp > key

\* the records of a subtree as a set
RecordSet(h, n) == {h[a].post : a \in Reach(h, n)}

\* C9: for three treaps A, B, C, union(union(A, B), C) and
\* union(A, union(B, C)) contain the same records.
C9_UnionAssociative ==
    \A a \in Usable : \A b \in Usable \ {a} : \A c \in Usable \ {a, b} :
        LET ab    == Treap_union(mem, treaps[a], treaps[b])
            ab_c  == Treap_union(ab.h, ab.self, treaps[c])
            bc    == Treap_union(mem, treaps[b], treaps[c])
            a_bc  == Treap_union(bc.h, treaps[a], bc.self)
        IN  /\ RecordSet(ab_c.h, ab_c.self.root) = RecordSet(a_bc.h, a_bc.self.root)
            /\ RecordsOf(ab_c.h, ab_c.self.root) = RecordsOf(a_bc.h, a_bc.self.root)

\* three non-empty Treaps with three different records
C9_Witness ==
    /\ Usable = TreapIds
    /\ \A i \in TreapIds : treaps[i].root # Nil
    /\ Cardinality(UNION {RecordSet(mem, treaps[i].root) : i \in TreapIds}) = 3

----------------------------------------------------------------------------
(* The mandated test case *)

\* C10: after adding (a,100,55), (b,100,12), (c,100,27), (d,100,14),
\* (e,109,13) in that order to a Treap, liking e twice and deleting b,
\* mostPopular() returns the record a with score 55 and mostRecent(1) returns
\* the record e.
C10_MandatedTestCase ==
    (pc = TestDone /\ run = "Treap" /\ test = SpecCase) =>
        /\ ret.error = ""
        /\ Len(ret.popular) = 1
        /\ ret.popular[1].post_id = "a" /\ ret.popular[1].score = 55
        /\ Len(ret.recent) = 1
        /\ ret.recent[1].post_id = "e"

\* the half of C10 the Treap of the source can answer: the most popular record
C10_MostPopularOnly ==
    (pc = TestDone /\ run = "Treap" /\ test = SpecCase) =>
        /\ Len(ret.popular) = 1
        /\ ret.popular[1] = Post("a", 100, 55)
        /\ \E a \in Reach(mem, treaps[Master].root) : mem[a].post = Post("e", 109, 15)
        /\ \A a \in Reach(mem, treaps[Master].root) : mem[a].post.post_id # "b"

----------------------------------------------------------------------------
(* Absent ids and empty trees *)

\* the ids of the records of a subtree
IdsOf(h, n) == {h[a].post.post_id : a \in Reach(h, n)}

\* an id no record carries
Absent == "z"
AnyId == Ids \cup {Absent}

\* C11: in both trees likePost(id) returns true exactly when a record with
\* that id is in the tree; for an absent id it returns false and leaves the
\* shape, the records, the scores and the priorities as they were.
C11_LikeReportsFound ==
    /\ \A post_id \in AnyId :
           LET r == BST_likePost(mem, bst, post_id)
           IN  /\ r.ret = (post_id \in IdsOf(mem, bst.root))
               /\ ~r.ret => r.h = mem
    /\ \A i \in Usable : \A post_id \in AnyId :
           LET r == Treap_likePost(mem, treaps[i], post_id)
           IN  /\ r.ret = (post_id \in IdsOf(mem, treaps[i].root))
               /\ ~r.ret => r.h = mem /\ r.self = treaps[i]

\* a BST of three records: the absent id is reported as not found, and an id
\* found only in the right subtree of the root as found
C11_Witness ==
    /\ run = "BST"
    /\ Size(bst.root) = 3
    /\ ~BST_likePost(mem, bst, Absent).ret
    /\ \E post_id \in Ids :
           /\ BST_likePost(mem, bst, post_id).ret
           /\ post_id \notin IdsOf(mem, mem[bst.root].left) \cup {mem[bst.root].post.post_id}

\* C12 as stated: in both trees deletePost(id) of an absent id leaves the
\* shape and the records as they were, rotates nothing, raises no error, and
\* the call returns false for an absent id and true for a present one.
C12_DeleteReportsFound ==
    /\ \A post_id \in AnyId :
           LET r == BST_deletePost(mem, bst, post_id)
           IN  /\ r.ret = <<post_id \in IdsOf(mem, bst.root)>>
               /\ post_id \notin IdsOf(mem, bst.root) => r.h = mem /\ r.self = bst
    /\ \A i \in Usable : \A post_id \in AnyId :
           LET r == Treap_deletePost(mem, treaps[i], post_id)
           IN  /\ r.ret = <<post_id \in IdsOf(mem, treaps[i].root)>>
               /\ post_id \notin IdsOf(mem, treaps[i].root)
                      => r.h = mem /\ r.self = treaps[i]

\* the part of C12 about the tree: deletePost of an absent id changes neither
\* store nor tree object, rotation counter included
C12_AbsentDeleteIsNoOp ==
    /\ \A post_id \in AnyId \ IdsOf(mem, bst.root) :
           LET r == BST_deletePost(mem, bst, post_id)
           IN  r.h = mem /\ r.self = bst
    /\ \A i \in Usable : \A post_id \in AnyId \ IdsOf(mem, treaps[i].root) :
           LET r == Treap_deletePost(mem, treaps[i], post_id)
           IN  r.h = mem /\ r.self = treaps[i]

\* the sizes asked of getMostRecent: below, at and above every tree size
Ks == -1 .. MaxStream + 1

\* C13 as stated: on an empty tree, never populated or emptied by deletes, no
\* operation raises an error: mostPopular returns no record, mostRecent(k) the
\* empty list, update returns not-found and delete leaves the tree empty.
C13_EmptyTreeOperations ==
    /\ bst.root = Nil =>
           /\ BST_getMostPopular(mem, bst).ret = <<>>
           /\ \A k \in Ks : CallGetMostRecent(BSTMethods, mem, bst, k)
                                = [error |-> "", ret |-> <<>>]
           /\ \A post_id \in AnyId :
                  /\ BST_likePost(mem, bst, post_id) = [h |-> mem, ret |-> FALSE]
                  /\ BST_deletePost(mem, bst, post_id).self.root = Nil
    /\ \A i \in Usable : treaps[i].root = Nil =>
           /\ Treap_getMostPopular(mem, treaps[i]) = <<>>
           /\ \A k \in Ks : CallGetMostRecent(TreapMethods, mem, treaps[i], k)
                                = [error |-> "", ret |-> <<>>]
           /\ \A post_id \in AnyId :
                  /\ ~Treap_likePost(mem, treaps[i], post_id).ret
                  /\ Treap_deletePost(mem, treaps[i], post_id).self.root = Nil

\* C13 for the methods each class defines: all of the above on the BST, and
\* mostPopular, update and delete on the Treap
C13_EmptyTreeDefinedOperations ==
    /\ bst.root = Nil =>
           /\ BST_getMostPopular(mem, bst).ret = <<>>
           /\ \A k \in Ks : CallGetMostRecent(BSTMethods, mem, bst, k)
                                = [error |-> "", ret |-> <<>>]
           /\ \A post_id \in AnyId :
                  /\ BST_likePost(mem, bst, post_id) = [h |-> mem, ret |-> FALSE]
                  /\ BST_deletePost(mem, bst, post_id).self.root = Nil
    /\ \A i \in Usable : treaps[i].root = Nil =>
           /\ Treap_getMostPopular(mem, treaps[i]) = <<>>
           /\ \A post_id \in AnyId :
                  /\ ~Treap_likePost(mem, treaps[i], post_id).ret
                  /\ Treap_deletePost(mem, treaps[i], post_id).self.root = Nil

----------------------------------------------------------------------------
(* Delete and update by id *)

UniqueIds(h, n) == Cardinality(IdsOf(h, n)) = Cardinality(Reach(h, n))

\* the bag with one copy of each record of the set
OneOfEach(records) == [r \in records |-> 1]

\* the records of a subtree that carry the id
WithId(h, n, post_id) == {h[a].post : a \in {x \in Reach(h, n) : h[x].post.post_id = post_id}}

\* C14: in both trees, when ids are unique and a record with the id is
\* present, deletePost(id) removes exactly that record: the multiset of the
\* records afterwards is the one before minus that record, every other record
\* with its id, timestamp and score as before.
C14_DeleteRemovesTheRecord ==
    /\ UniqueIds(mem, bst.root) =>
           \A post_id \in IdsOf(mem, bst.root) :
               LET r == BST_deletePost(mem, bst, post_id)
               IN  RecordsOf(r.h, r.self.root) (+) OneOfEach(WithId(mem, bst.root, post_id))
                       = RecordsOf(mem, bst.root)
    /\ \A i \in Usable : UniqueIds(mem, treaps[i].root) =>
           \A post_id \in IdsOf(mem, treaps[i].root) :
               LET r == Treap_deletePost(mem, treaps[i], post_id)
               IN  RecordsOf(r.h, r.self.root)
                       (+) OneOfEach(WithId(mem, treaps[i].root, post_id))
                       = RecordsOf(mem, treaps[i].root)

\* a BST of four records whose root has two children and its successor below
\* the right child, and a Treap of the same records that has been rotated
C14_Witness ==
    /\ run = "BST+Treap"
    /\ Size(bst.root) = 4
    /\ mem[bst.root].left # Nil /\ mem[bst.root].right # Nil
    /\ mem[mem[bst.root].right].left # Nil
    /\ treaps[Master].rotations_count > 0
    /\ Cardinality(DOMAIN RecordsOf(BST_deletePost(mem, bst, mem[bst.root].post.post_id).h,
                       BST_deletePost(mem, bst, mem[bst.root].post.post_id).self.root)) = 3

\* the subtree holds the id more than once
Duplicated(h, n, post_id) ==
    Cardinality({a \in Reach(h, n) : h[a].post.post_id = post_id}) > 1

\* exactly one record with the id has gone, the other records are as before
OneRemoved(before, after, candidates) ==
    \E rec \in candidates : after (+) OneOfEach({rec}) = before

\* exactly one record with the id has one like more, the others are as before
OneLiked(before, after, candidates) ==
    \E rec \in candidates :
        after (+) OneOfEach({rec}) = before (+) OneOfEach({[rec EXCEPT !.score = @ + 1]})

\* C15 as stated: in both trees, when several records carry the same id, one
\* deletePost(id) removes exactly one of them and one likePost(id) changes the
\* score of exactly one of them; the other records with that id stay as they
\* were.
C15_OneRecordPerCall ==
    /\ \A post_id \in Ids : Duplicated(mem, bst.root, post_id) =>
           LET d == BST_deletePost(mem, bst, post_id)
               l == BST_likePost(mem, bst, post_id)
           IN  /\ OneRemoved(RecordsOf(mem, bst.root), RecordsOf(d.h, d.self.root),
                             WithId(mem, bst.root, post_id))
               /\ OneLiked(RecordsOf(mem, bst.root), RecordsOf(l.h, bst.root),
                           WithId(mem, bst.root, post_id))
    /\ \A i \in Usable : \A post_id \in Ids : Duplicated(mem, treaps[i].root, post_id) =>
           LET d == Treap_deletePost(mem, treaps[i], post_id)
               l == Treap_likePost(mem, treaps[i], post_id)
           IN  /\ OneRemoved(RecordsOf(mem, treaps[i].root), RecordsOf(d.h, d.self.root),
                             WithId(mem, treaps[i].root, post_id))
               /\ OneLiked(RecordsOf(mem, treaps[i].root), RecordsOf(l.h, l.self.root),
                           WithId(mem, treaps[i].root, post_id))

\* C15 without the delete of the BST: likePost in both trees and deletePost in
\* the Treap touch one record
C15_OneRecordExceptBSTDelete ==
    /\ \A post_id \in Ids : Duplicated(mem, bst.root, post_id) =>
           LET l == BST_likePost(mem, bst, post_id)
           IN  OneLiked(RecordsOf(mem, bst.root), RecordsOf(l.h, bst.root),
                        WithId(mem, bst.root, post_id))
    /\ \A i \in Usable : \A post_id \in Ids : Duplicated(mem, treaps[i].root, post_id) =>
           LET d == Treap_deletePost(mem, treaps[i], post_id)
               l == Treap_likePost(mem, treaps[i], post_id)
           IN  /\ OneRemoved(RecordsOf(mem, treaps[i].root), RecordsOf(d.h, d.self.root),
                             WithId(mem, treaps[i].root, post_id))
               /\ OneLiked(RecordsOf(mem, treaps[i].root), RecordsOf(l.h, l.self.root),
                           WithId(mem, treaps[i].root, post_id))

----------------------------------------------------------------------------
(* The queries of the BST *)

\* C16: on a non-empty BST, after any sequence of inserts, updates and
\* deletes, getMostPopular() returns a record of the tree whose score is the
\* maximum over all records present, and changes neither the structure nor
\* the records of the tree.
C16_BSTMostPopularIsMax ==
    bst.root # Nil =>
        LET r == BST_getMostPopular(mem, bst)
        IN  /\ Len(r.ret) = 1
            /\ r.ret[1] \in RecordSet(mem, bst.root)
            /\ \A rec \in RecordSet(mem, bst.root) : rec.score <= r.ret[1].score
            /\ r.h = mem

\* a BST of three records whose only top score sits in the right subtree of
\* the root
C16_Witness ==
    /\ run = "BST"
    /\ Size(bst.root) = 3
    /\ mem[bst.root].post.score < MaxScore
    /\ \A a \in Reach(mem, mem[bst.root].left) : mem[a].post.score < MaxScore
    /\ BST_getMostPopular(mem, bst).ret[1].score = MaxScore

Min(x, y) == IF x < y THEN x ELSE y
Max(x, y) == IF x > y THEN x ELSE y

\* C17: on a BST of N records getMostRecent(k) returns exactly
\* min(max(k, 0), N) records, in non-increasing order of timestamp, and they
\* are the records with the largest timestamps: no record left out is newer
\* than a record returned, whatever the shape of the tree.
C17_BSTMostRecent ==
    \A k \in Ks :
        LET res  == BST_getMostRecent(mem, bst, k)
            rest == RecordsOf(mem, bst.root) (-) BagOfSeq(res)
        IN  /\ Len(res) = Min(Max(k, 0), Size(bst.root))
            /\ \A x \in 1 .. Len(res) - 1 : res[x].timestamp >= res[x + 1].timestamp
            /\ BagOfSeq(res) \sqsubseteq RecordsOf(mem, bst.root)
            /\ \A rec \in DOMAIN rest : \A x \in DOMAIN res : rec.timestamp <= res[x].timestamp

\* a BST of three records with both subtrees under the root and a timestamp
\* held twice, asked for fewer records than it holds
C17_Witness ==
    /\ run = "BST"
    /\ Size(bst.root) = 3
    /\ mem[bst.root].left # Nil /\ mem[bst.root].right # Nil
    /\ Cardinality(TimestampsOf(mem, bst.root)) = 2
    /\ Len(BST_getMostRecent(mem, bst, 2)) = 2
    /\ BST_getMostRecent(mem, bst, 2)[2] = mem[bst.root].post

\* C18 as stated: the Treap offers mostRecent(k) with the algorithm of the
\* BST: for a BST and a Treap built from the same inserts of records with
\* distinct timestamps, Treap.mostRecent(k) returns the same sequence of
\* records as BST.mostRecent(k), for every k.
C18_TreapMostRecentAsBST ==
    (run = "BST+Treap" /\ Size(bst.root) >= 2) =>
        \A k \in Ks :
            CallGetMostRecent(TreapMethods, mem, treaps[Master], k)
                = CallGetMostRecent(BSTMethods, mem, bst, k)

\* the traversal of the BST, were it run on the nodes of the Treap, returns
\* what it returns on the BST
C18_SameTraversalAgrees ==
    run = "BST+Treap" =>
        \A k \in Ks :
            BST_getMostRecent(mem, treaps[Master], k) = BST_getMostRecent(mem, bst, k)

----------------------------------------------------------------------------
(* What union does to the two Treap objects *)

\* C19 as stated: after receiver.union(donor) the rotation counter and the
\* comparison counter of the receiver are each the receiver's value before
\* plus the donor's value, for every donor, an empty one included.
C19_UnionFoldsCounters ==
    \A i \in Usable : \A j \in Usable \ {i} :
        LET u == Treap_union(mem, treaps[i], treaps[j])
        IN  /\ u.self.rotations_count
                   = treaps[i].rotations_count + treaps[j].rotations_count
            /\ u.self.comparisons = treaps[i].comparisons + treaps[j].comparisons

\* what union does with the counters: the rotations of a non-empty donor are
\* added, the rotations of an empty donor are not, the comparisons never
C19_UnionFoldsRotationsOfNonEmptyDonor ==
    \A i \in Usable : \A j \in Usable \ {i} :
        LET u == Treap_union(mem, treaps[i], treaps[j])
        IN  /\ u.self.rotations_count
                   = treaps[i].rotations_count
                     + (IF treaps[j].root # Nil THEN treaps[j].rotations_count ELSE 0)
            /\ u.self.comparisons = treaps[i].comparisons

\* C20 as stated: after receiver.union(donor) has completed, the donor tree is
\* empty and no node is reachable from both the donor's root and the
\* receiver's root: node ownership stays a strict tree.
C20_UnionEmptiesDonor ==
    \A j \in consumed :
        /\ treaps[j].root = Nil
        /\ \A i \in TreapIds \ {j} :
               Reach(mem, treaps[i].root) \cap Reach(mem, treaps[j].root) = {}

\* with the driver's del of the donor after each union, the Treaps still in
\* use own disjoint sets of nodes
C20_UsableTreapsDisjoint ==
    \A i \in Usable : \A j \in Usable \ {i} :
        Reach(mem, treaps[i].root) \cap Reach(mem, treaps[j].root) = {}

----------------------------------------------------------------------------
(* Shape of the trees *)

\* the depths at which the subtree of n has a node, n itself at depth d
RECURSIVE DepthsOf(_, _, _)
DepthsOf(h, n, d) ==
    IF n = Nil THEN {}
    ELSE {d} \cup DepthsOf(h, h[n].left, d + 1) \cup DepthsOf(h, h[n].right, d + 1)

\* the number of nodes on the longest path from n down to a leaf
Height(h, n) ==
    IF n = Nil THEN 0 ELSE CHOOSE d \in DepthsOf(h, n, 1) : \A e \in DepthsOf(h, n, 1) : e <= d

\* the posts the stream has delivered so far
Delivered == SubSeq(test.posts, 1, pc - 1)

StrictlyIncreasing(q) == \A k \in 1 .. Len(q) - 1 : q[k].timestamp < q[k + 1].timestamp

\* C21: inserting N records with strictly increasing timestamps into an empty
\* BST gives a tree of height exactly N in which no node has a left child.
C21_IncreasingStreamMakesStick ==
    (run = "BST" /\ test \in StreamCases /\ StrictlyIncreasing(Delivered)) =>
        /\ Size(bst.root) = Len(Delivered)
        /\ Height(mem, bst.root) = Len(Delivered)
        /\ \A a \in Reach(mem, bst.root) : mem[a].left = Nil

\* a BST of four records that arrived oldest first
C21_Witness ==
    /\ run = "BST"
    /\ test \in StreamCases
    /\ Len(Delivered) = 4
    /\ StrictlyIncreasing(Delivered)
    /\ Height(mem, bst.root) = 4

\* the sum of f over the set S
RECURSIVE SumOver(_, _)
SumOver(f, S) ==
    IF S = {} THEN 0
    ELSE LET x == CHOOSE y \in S : TRUE IN f[x] + SumOver(f, S \ {x})

\* C22: get_structural_metrics on any root returns (height, total absolute
\* balance factor, node count): the count is the number of nodes a full
\* traversal finds, the height is the number of nodes on the longest path from
\* the root to a leaf, the total is the sum over all nodes of
\* |height of left subtree - height of right subtree|, and the result for an
\* empty root is (0, 0, 0).
C22_StructuralMetrics ==
    /\ get_structural_metrics(mem, Nil) = <<0, 0, 0>>
    /\ \A root \in AllRoots :
           LET m  == get_structural_metrics(mem, root)
               bf == [a \in Reach(mem, root) |->
                         AbsDiff(Height(mem, mem[a].left), Height(mem, mem[a].right))]
           IN  /\ m[1] = Height(mem, root)
               /\ m[2] = SumOver(bf, Reach(mem, root))
               /\ m[3] = Len(InOrder(mem, root))

\* a Treap of four nodes that is neither a stick nor empty on one side, its
\* right subtree higher than its left
C22_Witness ==
    /\ run = "Treap"
    /\ Size(treaps[Master].root) = 4
    /\ mem[treaps[Master].root].left # Nil
    /\ get_structural_metrics(mem, treaps[Master].root)
           = <<3, 2, 4>>
    /\ Height(mem, mem[treaps[Master].root].left) < Height(mem, mem[treaps[Master].root].right)

-----------------------------------------------------------------------------
(* The steps of a Treap delete *)

\* the steps of deletePost(post_id) on the treap: after each rotation, the tree
\* and the node that is being deleted
DeleteSteps(t, post_id) == Treap_delete_recursive(Ctx(mem, t), t.root, post_id).s.steps

\* the nodes of the tree that carry the id and have a child
NonLeafWithId(root, post_id) ==
    {a \in Reach(mem, root) :
        /\ mem[a].post.post_id = post_id
        /\ mem[a].left # Nil \/ mem[a].right # Nil}

\* priority of a node is at least that of each child other than `except`
HeapOrderedBut(h, n, except) ==
    \A a \in Reach(h, n) :
        /\ h[a].left \notin {Nil, except} => h[a].priority >= h[h[a].left].priority
        /\ h[a].right \notin {Nil, except} => h[a].priority >= h[h[a].right].priority

\* C23 as stated: during a Treap delete of a present non-leaf node, after each
\* downward rotation of the target, before it is detached as a leaf, the heap
\* invariant holds for every parent-child pair of the whole tree.
C23_HeapAtEveryStep ==
    \A i \in Usable : \A post_id \in Ids :
        LET steps == DeleteSteps(treaps[i], post_id)
        IN  Len(steps) > 0 =>
                \A k \in DOMAIN steps : HeapOrdered(steps[k].tree.h, steps[k].tree.root)

\* C23: during a Treap delete of a present non-leaf node, after each downward
\* rotation of the target, before it is detached as a leaf, the heap invariant
\* holds for every parent-child pair of the whole tree except the pair whose
\* child is the target: the child that was rotated above the target may have
\* the lower priority.
C23_HeapAtEveryStepButTarget ==
    \A i \in Usable : \A post_id \in Ids :
        LET steps == DeleteSteps(treaps[i], post_id)
        IN  \A k \in DOMAIN steps :
                HeapOrderedBut(steps[k].tree.h, steps[k].tree.root, steps[k].target)

\* at each of these steps the whole tree holds the records it held before the
\* delete, and the node on its way down carries the id
C23_StepsKeepRecords ==
    \A i \in Usable : \A post_id \in Ids :
        LET steps == DeleteSteps(treaps[i], post_id)
        IN  \A k \in DOMAIN steps :
                /\ RecordsOf(steps[k].tree.h, steps[k].tree.root)
                       = RecordsOf(mem, treaps[i].root)
                /\ steps[k].tree.h[steps[k].target].post.post_id = post_id

\* a delete whose target has two children and goes down by two rotations, the
\* first over a child of lower priority than the target
C23_Witness ==
    \E i \in Usable : \E post_id \in Ids :
        LET steps == DeleteSteps(treaps[i], post_id)
            t     == treaps[i].root
        IN  /\ NonLeafWithId(t, post_id) = {t}
            /\ mem[t].left # Nil /\ mem[t].right # Nil
            /\ Len(steps) = 2
            /\ steps[1].target = t /\ steps[2].target = t
            /\ ~HeapOrdered(steps[1].tree.h, steps[1].tree.root)
            /\ steps[1].tree.h[steps[1].tree.root].priority < mem[t].priority

-----------------------------------------------------------------------------
(* Rotations and their counter *)

\* the level of node a in the tree under n: 1 for n itself, 0 when a is not there
RECURSIVE LevelOf(_, _, _)
LevelOf(h, n, a) ==
    IF n = Nil THEN 0
    ELSE IF n = a THEN 1
    ELSE LET l == LevelOf(h, h[n].left, a)
             r == LevelOf(h, h[n].right, a)
         IN  IF l > 0 THEN l + 1 ELSE IF r > 0 THEN r + 1 ELSE 0

\* what a rotation of the subtree under y has to leave as it was
RotationFrame(t, y, r) ==
    /\ PostsOf(r.s.h, r.node) = PostsOf(mem, y)
    /\ \A a \in DOMAIN mem : r.s.h[a].post = mem[a].post /\ r.s.h[a].priority = mem[a].priority
    /\ r.s.rot = t.rotations_count + 1
    /\ r.s.cmp = t.comparisons

\* C24: a right rotation of a node with a left child and a left rotation of a
\* node with a right child leave the in-order sequence of the records of the
\* rotated subtree as it was, change no record and add exactly 1 to
\* rotations_count; no operation other than a rotation or a union changes
\* rotations_count: addPost, likePost and deletePost change it by the number
\* of rotations they make, one for each level the new or liked node goes up
\* or the deleted node goes down, and by nothing when the id is absent.
C24_RotationFrame ==
    \A i \in Usable :
        LET t == treaps[i]
        IN  /\ \A y \in Reach(mem, t.root) :
                   /\ mem[y].left # Nil =>
                          RotationFrame(t, y, Treap_right_rotate(Ctx(mem, t), y))
                   /\ mem[y].right # Nil =>
                          RotationFrame(t, y, Treap_left_rotate(Ctx(mem, t), y))
            /\ \A post_id \in Ids, timestamp \in Timestamps, score \in Scores :
                   LET r == Treap_addPost(mem, t, Post(post_id, timestamp, score))
                       attached == r.self.comparisons - t.comparisons + 1
                   IN  r.self.rotations_count - t.rotations_count
                           = attached - LevelOf(r.h, r.self.root, Alloc(mem))
            /\ \A post_id \in AnyId :
                   LET r == Treap_likePost(mem, t, post_id)
                       liked == {a \in DOMAIN mem : r.h[a].post # mem[a].post}
                   IN  IF liked = {}
                       THEN r.self.rotations_count = t.rotations_count
                       ELSE \A a \in liked :
                                r.self.rotations_count - t.rotations_count
                                    = LevelOf(mem, t.root, a) - LevelOf(r.h, r.self.root, a)
            /\ \A post_id \in AnyId :
                   LET r == Treap_deletePost(mem, t, post_id)
                       steps == DeleteSteps(t, post_id)
                   IN  /\ r.self.rotations_count - t.rotations_count = Len(steps)
                       /\ \A k \in DOMAIN steps :
                              LevelOf(steps[k].tree.h, steps[k].tree.root, steps[k].target)
                                  = LevelOf(mem, t.root, steps[k].target) + k
                       /\ post_id \notin IdsOf(mem, t.root) => Len(steps) = 0

\* a treap in which a right rotation moves a subtree T2 from the left child to
\* the rotated node, and in which a likePost rotates the liked node up
C24_Witness ==
    \E i \in Usable :
        LET t == treaps[i]
        IN  /\ \E y \in Reach(mem, t.root) :
                   /\ mem[y].left # Nil /\ mem[mem[y].left].right # Nil
                   /\ LET r == Treap_right_rotate(Ctx(mem, t), y)
                      IN  r.node = mem[y].left /\ r.s.h[y].left = mem[mem[y].left].right
            /\ \E post_id \in Ids :
                   LET r == Treap_likePost(mem, t, post_id)
                   IN  r.self.rotations_count = t.rotations_count + 1

-----------------------------------------------------------------------------
(* What likePost and addPost change *)

\* the nodes of the tree whose record or priority differs between two stores
Touched(before, after, root) ==
    {a \in Reach(before, root) :
        before[a].post # after[a].post \/ before[a].priority # after[a].priority}

\* C25: in both trees, likePost on a present id raises the score of exactly
\* one record with that id by exactly 1 and leaves every other record as it
\* was, no record is added or removed, and in the Treap the priority of that
\* same node goes up by 1 as well, in the BST no priority changes.
C25_LikeRaisesOneScore ==
    /\ \A post_id \in IdsOf(mem, bst.root) :
           LET r == BST_likePost(mem, bst, post_id)
           IN  /\ Reach(r.h, bst.root) = Reach(mem, bst.root)
               /\ \E a \in Reach(mem, bst.root) :
                      /\ Touched(mem, r.h, bst.root) = {a}
                      /\ mem[a].post.post_id = post_id
                      /\ r.h[a].post = [mem[a].post EXCEPT !.score = @ + 1]
                      /\ r.h[a].priority = mem[a].priority
    /\ \A i \in Usable : \A post_id \in IdsOf(mem, treaps[i].root) :
           LET r == Treap_likePost(mem, treaps[i], post_id)
           IN  /\ Reach(r.h, r.self.root) = Reach(mem, treaps[i].root)
               /\ \E a \in Reach(mem, treaps[i].root) :
                      /\ Touched(mem, r.h, treaps[i].root) = {a}
                      /\ mem[a].post.post_id = post_id
                      /\ r.h[a].post = [mem[a].post EXCEPT !.score = @ + 1]
                      /\ r.h[a].priority = mem[a].priority + 1

\* a BST in which two records below the root carry the same id, and a
\* likePost of that id that changes the records of the tree
C25_Witness ==
    /\ run = "BST"
    /\ \E post_id \in Ids :
           /\ Duplicated(mem, bst.root, post_id)
           /\ mem[bst.root].post.post_id # post_id
           /\ BST_likePost(mem, bst, post_id).ret
           /\ RecordsOf(BST_likePost(mem, bst, post_id).h, bst.root) # RecordsOf(mem, bst.root)

\* C26: BST likePost makes no structural change: the root and the left and
\* right link of every node are the same before and after the call, whether
\* the id is found or not, and no node is added or removed.
C26_BSTLikeKeepsShape ==
    \A post_id \in AnyId :
        LET r == BST_likePost(mem, bst, post_id)
        IN  /\ DOMAIN r.h = DOMAIN mem
            /\ \A a \in DOMAIN mem : r.h[a].left = mem[a].left /\ r.h[a].right = mem[a].right
            /\ InOrder(r.h, bst.root) = InOrder(mem, bst.root)
            /\ r.ret = (post_id \in IdsOf(mem, bst.root))

\* a likePost that finds its record below the root, in a tree of three nodes,
\* and gives it a higher score than the root has
C26_Witness ==
    /\ run = "BST"
    /\ \E post_id \in Ids :
           LET target_node == BST_search_by_id(mem, bst.root, post_id)
               r == BST_likePost(mem, bst, post_id)
           IN  /\ target_node \notin {Nil, bst.root}
               /\ Size(bst.root) = 3
               /\ r.h[target_node].post.score > mem[bst.root].post.score

\* the tree under `after` has the nodes of the tree under `before`, each with
\* the record it had, and one node more, which holds new_post
OneNodeMore(h, before, h1, after, new_post) ==
    LET old == Reach(h, before)
        new == Reach(h1, after) \ old
    IN  /\ old \subseteq Reach(h1, after)
        /\ \A a \in old : h1[a].post = h[a].post
        /\ Cardinality(new) = 1
        /\ \A a \in new : h1[a].post = new_post

\* C27: in both trees addPost adds exactly one record: the multiset of the
\* records afterwards is the multiset before plus the inserted record (every
\* node of before is there with its record, and one new node holds the new
\* one), also when the timestamp or the id, or the whole record, equals an
\* existing one.
C27_AddPostAddsOneRecord ==
    \A post_id \in Ids, timestamp \in Timestamps, score \in Scores :
        LET new_post == Post(post_id, timestamp, score)
        IN  /\ LET r == BST_addPost([h |-> mem, cmp |-> bst.comparisons], bst, new_post)
               IN  OneNodeMore(mem, bst.root, r.s.h, r.root, new_post)
            /\ \A i \in Usable :
                   LET r == Treap_addPost(mem, treaps[i], new_post)
                   IN  OneNodeMore(mem, treaps[i].root, r.h, r.self.root, new_post)

\* a BST of three nodes and a post that equals one of its records in id,
\* timestamp and score: after addPost two nodes hold that record
C27_Witness ==
    /\ run = "BST"
    /\ Size(bst.root) = 3
    /\ \E a \in Reach(mem, bst.root) :
           /\ mem[a].post.post_id \in Ids
           /\ mem[a].post.timestamp \in Timestamps
           /\ mem[a].post.score \in Scores
           /\ LET r == BST_addPost([h |-> mem, cmp |-> bst.comparisons], bst, mem[a].post)
              IN  Cardinality({b \in Reach(r.s.h, r.root) : r.s.h[b].post = mem[a].post}) = 2

-----------------------------------------------------------------------------
(* The shape of a Treap and the order of arrival *)

\* a tree written out: <<>> when empty, else <<left, record, right>>
RECURSIVE Shape(_, _)
Shape(h, n) ==
    IF n = Nil THEN <<>>
    ELSE <<Shape(h, h[n].left), h[n].post, Shape(h, h[n].right)>>

\* the one tree that is ordered by timestamp and heap-ordered by score, for
\* records that differ pairwise in both: the record of the highest score on
\* top, the older records to its left, the newer ones to its right
RECURSIVE ShapeOf(_)
ShapeOf(records) ==
    IF records = {} THEN <<>>
    ELSE LET top == CHOOSE r \in records : \A q \in records : q.score <= r.score
         IN  <<ShapeOf({q \in records : q.timestamp < top.timestamp}),
               top,
               ShapeOf({q \in records : q.timestamp > top.timestamp})>>

DeliveredSet == {Delivered[k] : k \in DOMAIN Delivered}

\* C28: for records with pairwise distinct timestamps and pairwise distinct
\* scores, the Treap built by inserting them is the same tree for every order
\* of insertion: it is the tree the set of records determines.
C28_ShapeIndependentOfOrder ==
    (run = "Treap" /\ test \in StreamCases) =>
        Shape(mem, treaps[Master].root) = ShapeOf(DeliveredSet)

\* four records that arrived neither oldest first nor newest first, nor in the
\* order of their scores, in a Treap that is not a stick
C28_Witness ==
    /\ run = "Treap"
    /\ test \in StreamCases
    /\ Len(Delivered) = 4
    /\ ~StrictlyIncreasing(Delivered)
    /\ \E k \in 1 .. 3 : Delivered[k].timestamp < Delivered[k + 1].timestamp
    /\ \E k \in 1 .. 3 : Delivered[k].score < Delivered[k + 1].score
    /\ \E k \in 1 .. 3 : Delivered[k].score > Delivered[k + 1].score
    /\ Height(mem, treaps[Master].root) = 3
    /\ treaps[Master].rotations_count >= 2

====
